---------------------------- MODULE Spec2Model ----------------------------
(***************************************************************************)
(* A model of the Zebra label-printer helper (src/zebra/zeb.py,            *)
(* src/zebra/system.py, src/zebra/__main__.py).                            *)
(*                                                                         *)
(* Text is modelled as a sequence of one-character strings, so that the    *)
(* scraping the program does on the output of lpinfo, lpstat and udevadm   *)
(* (split, replace, strip, substring tests) is computed the way Python     *)
(* computes it.  What the operating system answers to a command is an      *)
(* input of the call that runs the command; what the program itself        *)
(* changes (the registered queues, the environment store, the udev rule    *)
(* file, the session object) is state.                                     *)
(***************************************************************************)
EXTENDS Integers, Sequences, FiniteSets

VARIABLES
    session,    \* the Zebra object under use: NoSession or its fields
    queues,     \* the lines lpstat -v prints: the registered print queues
    envStore,   \* the persisted environment: role key -> value or None
    rulesFile,  \* /etc/udev/rules.d/99-zebra.rules: None or its content
    call        \* the last call: operation, inputs, result and effects

vars == <<session, queues, envStore, rulesFile, call>>

(***************************************************************************)
(* Python values that are not text.                                        *)
(***************************************************************************)
\* None where a text may stand: no text holds a string longer than one character
None == <<"None">>
NoSession == [none |-> TRUE]
RNone == [none |-> TRUE]
RBool(b) == [bool |-> b]
Raised(e) == [raised |-> e]
IsRaised(v) == v \in {Raised("AttributeError"), Raised("TypeError"),
                      Raised("IndexError"), Raised("ValueError"),
                      Raised("KeyError"), Raised("FileNotFoundError"),
                      Raised("Exception")}

(***************************************************************************)
(* str operations of Python, on sequences of characters.                   *)
(***************************************************************************)
Whitespace == {" ", "\t", "\n", "\r"}

Sub(s, i, j) == IF j < i THEN <<>> ELSE SubSeq(s, i, j)

\* s[i-1:].startswith(p)
MatchAt(s, p, i) ==
    /\ i + Len(p) - 1 <= Len(s)
    /\ \A k \in 1..Len(p) : s[i + k - 1] = p[k]

\* s.find(p, i-1) + 1: the least index >= i where p occurs, 0 when none
Find(s, p, i) ==
    LET hits == {k \in i..(Len(s) - Len(p) + 1) : MatchAt(s, p, k)}
    IN  IF hits = {} THEN 0 ELSE CHOOSE k \in hits : \A m \in hits : k <= m

\* s.rfind(p) + 1
RFind(s, p, i) ==
    LET hits == {k \in 1..i : MatchAt(s, p, k)}
    IN  IF hits = {} THEN 0 ELSE CHOOSE k \in hits : \A m \in hits : m <= k

\* p in s
Contains(s, p) == Find(s, p, 1) # 0

StartsWith(s, p) == MatchAt(s, p, 1)

\* s.split(sep, maxsplit); maxsplit = -1 is no limit
RECURSIVE Split(_, _, _)
Split(s, sep, maxsplit) ==
    LET j == Find(s, sep, 1)
    IN  IF maxsplit = 0 \/ j = 0 THEN <<s>>
        ELSE <<Sub(s, 1, j - 1)>>
             \o Split(Sub(s, j + Len(sep), Len(s)), sep,
                      IF maxsplit < 0 THEN maxsplit ELSE maxsplit - 1)

\* s.rsplit(sep, maxsplit=1)[-1]
RSplitLast(s, sep) ==
    LET j == RFind(s, sep, Len(s) - Len(sep) + 1)
    IN  IF j = 0 THEN s ELSE Sub(s, j + Len(sep), Len(s))

\* s.replace(old, new)
RECURSIVE Replace(_, _, _)
Replace(s, old, new) ==
    LET j == Find(s, old, 1)
    IN  IF j = 0 THEN s
        ELSE Sub(s, 1, j - 1) \o new
             \o Replace(Sub(s, j + Len(old), Len(s)), old, new)

RECURSIVE LStrip(_)
LStrip(s) ==
    IF s # <<>> /\ Head(s) \in Whitespace THEN LStrip(Tail(s)) ELSE s

RECURSIVE RStrip(_)
RStrip(s) ==
    IF s # <<>> /\ s[Len(s)] \in Whitespace
    THEN RStrip(Sub(s, 1, Len(s) - 1)) ELSE s

\* s.strip()
Strip(s) == LStrip(RStrip(s))

\* s.split(): the maximal runs of non-whitespace
RECURSIVE SplitWS(_)
SplitWS(s) ==
    LET t == LStrip(s)
        n == IF \E k \in 1..Len(t) : t[k] \in Whitespace
             THEN CHOOSE k \in 1..Len(t) :
                    /\ t[k] \in Whitespace
                    /\ \A m \in 1..(k - 1) : t[m] \notin Whitespace
             ELSE Len(t) + 1
    IN  IF t = <<>> THEN <<>>
        ELSE <<Sub(t, 1, n - 1)>> \o SplitWS(Sub(t, n, Len(t)))

\* sep.join(parts)
RECURSIVE Join(_, _)
Join(parts, sep) ==
    IF parts = <<>> THEN <<>>
    ELSE IF Len(parts) = 1 THEN parts[1]
    ELSE parts[1] \o sep \o Join(Tail(parts), sep)

\* list(filter(None, xs)) on a list of strings: the non-empty ones
RECURSIVE FilterNonEmpty(_)
FilterNonEmpty(xs) ==
    IF xs = <<>> THEN <<>>
    ELSE (IF Head(xs) = <<>> THEN <<>> ELSE <<Head(xs)>>)
         \o FilterNonEmpty(Tail(xs))

NL == <<"\n">>


(***************************************************************************)
(* The texts of the model: the markers the program searches for, and the   *)
(* lines the print and USB subsystems answer with.                         *)
(***************************************************************************)
LineABC ==
    <<"d", "i", "r", "e", "c", "t", " ", "u", "s", "b", ":", "/", "/", "Z",
      "e", "b", "r", "a", "%", "2", "0", "T", "e", "c", "h", "n", "o", "l",
      "o", "g", "i", "e", "s", "/", "Z", "T", "C", "%", "2", "0", "Z", "T",
      "4", "1", "0", "?", "s", "e", "r", "i", "a", "l", "=", "A", "B", "C",
      "1", "2", "3">>
LineZ2 ==
    <<"d", "i", "r", "e", "c", "t", " ", "u", "s", "b", ":", "/", "/", "Z",
      "e", "b", "r", "a", "/", "Z", "D", "?", "s", "e", "r", "i", "a", "l",
      "=", "Z", "2">>
LineHP ==
    <<"d", "i", "r", "e", "c", "t", " ", "u", "s", "b", ":", "/", "/", "H",
      "P", "/", "L", "J", "?", "s", "e", "r", "i", "a", "l", "=", "H", "1">>
SN_ABC123 ==
    <<"A", "B", "C", "1", "2", "3">>
SN_Z2 ==
    <<"Z", "2">>
QueueLineABC ==
    <<"d", "e", "v", "i", "c", "e", " ", "f", "o", "r", " ", "Z", "T", "4",
      "1", "0", ":", " ", "u", "s", "b", ":", "/", "/", "Z", "e", "b", "r",
      "a", "%", "2", "0", "T", "e", "c", "h", "n", "o", "l", "o", "g", "i",
      "e", "s", "/", "Z", "T", "C", "%", "2", "0", "Z", "T", "4", "1", "0",
      "?", "s", "e", "r", "i", "a", "l", "=", "A", "B", "C", "1", "2", "3">>
QueueLineHP ==
    <<"d", "e", "v", "i", "c", "e", " ", "f", "o", "r", " ", "L", "J", ":",
      " ", "u", "s", "b", ":", "/", "/", "H", "P", "/", "L", "J", "?", "s",
      "e", "r", "i", "a", "l", "=", "H", "1">>
DevUsb ==
    <<"/", "d", "e", "v", "/", "u", "s", "b", "/">>
Lp0 ==
    <<"l", "p", "0">>
Lp1 ==
    <<"l", "p", "1">>
Hiddev0 ==
    <<"h", "i", "d", "d", "e", "v", "0">>
LpPrefix ==
    <<"l", "p">>
ZebraMarker ==
    <<"Z", "e", "b", "r", "a">>
SerialKey ==
    <<"s", "e", "r", "i", "a", "l", "=">>
UsbScheme ==
    <<"u", "s", "b", ":", "/", "/">>
Pct20 ==
    <<"%", "2", "0">>
DeviceFor ==
    <<"d", "e", "v", "i", "c", "e", " ", "f", "o", "r", " ">>
Vid0a5f ==
    <<"0", "a", "5", "f">>
Pid0120 ==
    <<"0", "1", "2", "0">>
DumpProductZT410 ==
    <<" ", " ", " ", " ", "A", "T", "T", "R", "S", "{", "p", "r", "o", "d",
      "u", "c", "t", "}", "=", "=", "\"", "Z", "T", "C", " ", "Z", "T",
      "4", "1", "0", "\"">>
DumpSerialABC ==
    <<" ", " ", " ", " ", "A", "T", "T", "R", "S", "{", "s", "e", "r", "i",
      "a", "l", "}", "=", "=", "\"", "A", "B", "C", "1", "2", "3", "\"">>
DumpSerialZ2 ==
    <<" ", " ", " ", " ", "A", "T", "T", "R", "S", "{", "s", "e", "r", "i",
      "a", "l", "}", "=", "=", "\"", "Z", "2", "\"">>
DumpKernelHid ==
    <<" ", " ", " ", " ", "K", "E", "R", "N", "E", "L", "=", "=", "\"",
      "h", "i", "d", "d", "e", "v", "0", "\"">>
UriABC ==
    <<"u", "s", "b", ":", "/", "/", "Z", "e", "b", "r", "a", "%", "2", "0",
      "T", "e", "c", "h", "n", "o", "l", "o", "g", "i", "e", "s", "/", "Z",
      "T", "C", "%", "2", "0", "Z", "T", "4", "1", "0", "?", "s", "e", "r",
      "i", "a", "l", "=", "A", "B", "C", "1", "2", "3">>
NameFromUriABC ==
    <<"Z", "e", "b", "r", "a", "-", "T", "e", "c", "h", "n", "o", "l", "o",
      "g", "i", "e", "s", "-", "Z", "T", "C", "-", "Z", "T", "4", "1", "0",
      "-", "A", "B", "C", "1", "2", "3">>
NameClaimedABC ==
    <<"Z", "T", "C", "-", "Z", "T", "4", "1", "0", "-", "A", "B", "C", "1",
      "2", "3">>
LsusbToken ==
    <<"0", "a", "5", "f", ":", "0", "1", "2", "0">>
ProductKey ==
    <<"p", "r", "o", "d", "u", "c", "t">>
ZTCKey ==
    <<"Z", "T", "C">>
DumpProductZD ==
    <<" ", " ", " ", " ", "A", "T", "T", "R", "S", "{", "p", "r", "o", "d",
      "u", "c", "t", "}", "=", "=", "\"", "Z", "T", "C", " ", "Z", "D",
      "\"">>
RulePrefix ==
    <<"S", "U", "B", "S", "Y", "S", "T", "E", "M", "=", "=", "\"", "u",
      "s", "b", "\"", ",", " ", "A", "T", "T", "R", "{", "i", "d", "V",
      "e", "n", "d", "o", "r", "}", "=", "=", "\"">>
RuleSuffix ==
    <<"\"", ",", " ", "M", "O", "D", "E", "=", "\"", "0", "6", "6", "6",
      "\"">>
EnvValueABC ==
    <<"A", "B", "C", "1", "2", "3", "-", "0", "a", "5", "f", "-", "0", "1",
      "2", "0">>

(***************************************************************************)
(* Zebra.get_config: the table the printer answers to ^XA^HH^XZ.           *)
(***************************************************************************)
TimeoutStatus == 124

Digits == {"0", "1", "2", "3", "4", "5", "6", "7", "8", "9"}

RECURSIVE DropLeadingZeros(_)
DropLeadingZeros(s) ==
    IF s # <<>> /\ Head(s) = "0" THEN DropLeadingZeros(Tail(s)) ELSE s

RECURSIVE DropTrailingZeros(_)
DropTrailingZeros(s) ==
    IF s # <<>> /\ s[Len(s)] = "0"
    THEN DropTrailingZeros(Sub(s, 1, Len(s) - 1)) ELSE s

\* float(s) on text made of digits, dots, blanks and letters that spell no
\* float (no sign, exponent, underscore, "inf" or "nan" occurs in the model's
\* texts): the number read, as its integer and fraction digits, or ValueError.
PyFloat(s) ==
    LET t   == Strip(s)
        dot == Find(t, <<".">>, 1)
        ip  == IF dot = 0 THEN t ELSE Sub(t, 1, dot - 1)
        fp  == IF dot = 0 THEN <<>> ELSE Sub(t, dot + 1, Len(t))
    IN  IF /\ \A k \in 1..Len(ip) : ip[k] \in Digits
           /\ \A k \in 1..Len(fp) : fp[k] \in Digits
           /\ Len(ip) + Len(fp) >= 1
        THEN [int |-> DropLeadingZeros(ip), frac |-> DropTrailingZeros(fp)]
        ELSE Raised("ValueError")

\* try: val = float(values[0])  except ValueError: val = values[0]
ConfigValue(field) ==
    IF PyFloat(field) = Raised("ValueError")
    THEN [text |-> field]
    ELSE [float |-> PyFloat(field)]

\* values = list(filter(None, line.split("  ")))[:-1]
ConfigFields(line) ==
    LET parts == FilterNonEmpty(Split(line, <<" ", " ">>, -1))
    IN  Sub(parts, 1, Len(parts) - 1)

\* data[key] = val
DictSet(data, key, val) ==
    [k \in (DOMAIN data) \cup {key} |-> IF k = key THEN val ELSE data[k]]

EmptyDict == [k \in {} |-> None]

\* the body of the loop over the response's lines
ConfigLine_DropsNothing(data, line) ==
    LET values == FilterNonEmpty(Split(line, <<" ", " ">>, -1))
    IN  IF Len(values) = 2
        THEN DictSet(data, Strip(values[2]), ConfigValue(values[1]))
        ELSE IF Len(values) = 3
        THEN DictSet(data, Strip(values[3]), ConfigValue(values[2]))
        ELSE data

ConfigLine(data, line) ==
    LET values == ConfigFields(line)
    IN  IF Len(values) = 2
        THEN DictSet(data, Strip(values[2]), ConfigValue(values[1]))
        ELSE IF Len(values) = 3
        THEN DictSet(data, Strip(values[3]), ConfigValue(values[2]))
        ELSE data

RECURSIVE ConfigTable(_, _)
ConfigTable(data, lines) ==
    IF lines = <<>> THEN data
    ELSE ConfigTable(ConfigLine(data, Head(lines)), Tail(lines))

\* get_config after the exchange: response = (status, stdout, stderr)
GetConfigResult_AnyStatus(status, stdout) ==
    IF stdout = None THEN RNone
    ELSE [dict |-> ConfigTable(EmptyDict, Split(stdout, NL, -1))]

GetConfigResult(status, stdout) ==
    IF status # TimeoutStatus THEN RNone
    ELSE [dict |-> ConfigTable(EmptyDict, Split(stdout, NL, -1))]


(***************************************************************************)
(* system.system_command: what running one external command gives.  The    *)
(* run is an input: the command could not be started (ran = FALSE, any     *)
(* exception is caught), or it exited with a status and an output.         *)
(***************************************************************************)
FailStatus == -1

NotRun == [ran |-> FALSE]
Ran(status, stdout) == [ran |-> TRUE, status |-> status, stdout |-> stdout]

SystemCommand(run) ==
    IF run.ran
    THEN [status |-> run.status, stdout |-> run.stdout]
    ELSE [status |-> FailStatus, stdout |-> None]

\* the text a command prints: its lines, each ended by a newline
RECURSIVE Text(_)
Text(lines) ==
    IF lines = <<>> THEN <<>> ELSE Head(lines) \o NL \o Text(Tail(lines))

(***************************************************************************)
(* The effects a call has on the world outside the process, in the order   *)
(* the call performs them.                                                 *)
(***************************************************************************)
ResetSequence == "^XA^XZ"
HostConfigZpl == "^XA^HH^XZ"
TestLabelZpl  == "^XA ... ^FDRJ = Denzel; JV = Dan Blizerian^FS ^XZ"

SettleMs      == 100
PrintSettleMs == 300
CupsSettleMs  == 2000

EvWrite(path, data)    == [ev |-> "write", path |-> path, data |-> data]
EvSleep(ms)            == [ev |-> "sleep", ms |-> ms]
EvRead(path)           == [ev |-> "read", path |-> path]
EvCancelAll            == [ev |-> "cancel -a -x"]
EvUsbReset(vid, pid, outcome) ==
    [ev |-> "usb reset", vid |-> vid, pid |-> pid, outcome |-> outcome]
EvSubmit(queue, zpl, status) ==
    [ev |-> "lp", queue |-> queue, zpl |-> zpl, status |-> status]
EvLpadmin(name, uri)   == [ev |-> "lpadmin", name |-> name, uri |-> uri]
EvRestartCups          == [ev |-> "systemctl restart cups"]
EvLsusb                == [ev |-> "lsusb"]
EvWriteRules(rule)     == [ev |-> "write rules", rule |-> rule]
EvReloadUdev           == [ev |-> "udevadm reload"]
EvPrompt(answer)       == [ev |-> "prompt", answer |-> answer]
EvEnvSet(key, value)   == [ev |-> "set_variable", key |-> key, value |-> value]

\* Python's truth of a text or None
Truthy(t) == t # None /\ t # <<>>

(***************************************************************************)
(* Zebra.get_printer_name                                                  *)
(***************************************************************************)
SetMin(S) == CHOOSE m \in S : \A k \in S : m <= k
SetMax(S) == CHOOSE m \in S : \A k \in S : m >= k

GetPrinterName(serial_number, lpstat) ==
    LET stdout     == SystemCommand(lpstat).stdout
        printers   == FilterNonEmpty(Split(stdout, NL, -1))
        hits       == {i \in 1..Len(printers) :
                          Contains(printers[i], serial_number)}
        my_printer == IF hits = {} THEN None
                      ELSE RStrip(printers[SetMin(hits)])
        tokens     == SplitWS(Split(my_printer, <<":">>, -1)[1])
    IN  IF stdout = None THEN Raised("TypeError")
        ELSE IF ~Contains(stdout, serial_number) THEN [name |-> None]
        ELSE IF ~Truthy(my_printer) THEN Raised("Exception")
        ELSE IF tokens = <<>> THEN Raised("IndexError")
        ELSE [name |-> tokens[Len(tokens)]]

(***************************************************************************)
(* Zebra.__init__                                                          *)
(*                                                                         *)
(* The directory /dev/usb is an input: missing, or its entries in the      *)
(* order os.listdir gives them.  The probe of an entry is run by           *)
(* system_command, which hands the "| grep <serial>" of its command line   *)
(* to udevadm as arguments, so its exit status is whatever udevadm makes   *)
(* of them: an input per entry.                                            *)
(***************************************************************************)
NoDir == [exists |-> FALSE]
Dir(entries) == [exists |-> TRUE, entries |-> entries]

LpPath(f) == DevUsb \o f

\* the loop body, with the break a first-match scan would have
LpScanStep_FirstMatch(lp_path, f, status) ==
    IF ~StartsWith(f, LpPrefix) THEN lp_path
    ELSE IF status # 0 THEN lp_path
    ELSE IF lp_path # None THEN lp_path
    ELSE LpPath(f)

\* the loop body: for f in os.listdir("/dev/usb/")
LpScanStep(lp_path, f, status) ==
    IF ~StartsWith(f, LpPrefix) THEN lp_path
    ELSE IF status # 0 THEN lp_path
    ELSE LpPath(f)

RECURSIVE LpScan(_, _, _)
LpScan(lp_path, entries, probe) ==
    IF entries = <<>> THEN lp_path
    ELSE LpScan(LpScanStep(lp_path, Head(entries), probe[Head(entries)]),
                Tail(entries), probe)

\* self.lp_path after the try/except/else of __init__
ResolveLpPath(dir, probe) ==
    IF ~dir.exists THEN None ELSE LpScan(None, dir.entries, probe)

\* the serial_number, vid, pid that __init__ works with: its arguments, or
\* the parts of os.environ["MFG_PRINTER"] when no serial number is given
InitIdentity(serial_number, vid, pid, environ) ==
    LET parts == Split(environ, <<"-">>, -1)
    IN  IF serial_number # <<>>
        THEN [serial_number |-> serial_number, vid |-> vid, pid |-> pid]
        ELSE IF environ = None THEN Raised("KeyError")
        ELSE IF ~Contains(environ, <<"-">>)
        THEN [serial_number |-> environ, vid |-> vid, pid |-> pid]
        ELSE IF Len(parts) # 3 THEN Raised("ValueError")
        ELSE [serial_number |-> parts[1], vid |-> parts[2], pid |-> parts[3]]

\* Zebra(serial_number, vid, pid): the object, or the exception raised
ZebraInit(serial_number, vid, pid, environ, lpstat, dir, probe) ==
    LET id   == InitIdentity(serial_number, vid, pid, environ)
        name == GetPrinterName(id.serial_number, lpstat)
    IN  IF IsRaised(id) THEN id
        ELSE IF IsRaised(name) THEN name
        ELSE [serial_number |-> id.serial_number,
              name          |-> name.name,
              vid           |-> id.vid,
              pid           |-> id.pid,
              lp_path       |-> ResolveLpPath(dir, probe)]

(***************************************************************************)
(* Zebra.command and Zebra.get_config                                      *)
(***************************************************************************)
\* the four device steps in an order that reads before the payload is written
CommandCall_ReadFirst(self, zpl, read) ==
    IF ~Truthy(self.lp_path)
    THEN [ret |-> [status |-> FailStatus, stdout |-> None], effects |-> <<>>]
    ELSE [ret     |-> [status |-> read.status, stdout |-> read.stdout],
          effects |-> <<EvWrite(self.lp_path, ResetSequence),
                        EvSleep(SettleMs),
                        EvRead(self.lp_path),
                        EvWrite(self.lp_path, zpl)>>]

\* command without the lp_path guard
CommandCall_NoGuard(self, zpl, read) ==
    [ret     |-> [status |-> read.status, stdout |-> read.stdout],
     effects |-> <<EvWrite(self.lp_path, ResetSequence),
                   EvSleep(SettleMs),
                   EvWrite(self.lp_path, zpl),
                   EvRead(self.lp_path)>>]

\* read: the exit status and output of "timeout 1s cat <lp_path>"
CommandCall(self, zpl, read) ==
    IF ~Truthy(self.lp_path)
    THEN [ret |-> [status |-> FailStatus, stdout |-> None], effects |-> <<>>]
    ELSE [ret     |-> [status |-> read.status, stdout |-> read.stdout],
          effects |-> <<EvWrite(self.lp_path, ResetSequence),
                        EvSleep(SettleMs),
                        EvWrite(self.lp_path, zpl),
                        EvRead(self.lp_path)>>]

GetConfigCall(self, read) ==
    LET response == CommandCall(self, HostConfigZpl, read)
    IN  [ret      |-> GetConfigResult(response.ret.status, response.ret.stdout),
         response |-> response.ret,
         effects  |-> response.effects]

(***************************************************************************)
(* Zebra.print, Zebra.test_print and Zebra.is_connected                    *)
(*                                                                         *)
(* usb: what usb.core.find and dev.reset() come to: "reset" (done),        *)
(* "no device" (find gave None) or "denied" (reset raised); the last two   *)
(* are swallowed by the except clause.  vid and pid are hexadecimal.       *)
(***************************************************************************)
UsbOutcomes == {"reset", "no device", "denied"}

UsbResetEffects(self, usb) ==
    IF Truthy(self.vid) /\ Truthy(self.pid)
    THEN <<EvUsbReset(self.vid, self.pid, usb)>>
    ELSE <<>>

\* print that reports the spooler's exit status
PrintCall_SurfacesStatus(self, zpl, lpinfo, usb, lpStatus) ==
    LET stdout == SystemCommand(lpinfo).stdout
    IN  IF stdout = None THEN [ret |-> Raised("TypeError"), effects |-> <<>>]
        ELSE IF ~Contains(stdout, self.serial_number)
        THEN [ret |-> RBool(FALSE), effects |-> <<>>]
        ELSE IF ~Truthy(self.name)
        THEN [ret |-> RBool(FALSE), effects |-> <<>>]
        ELSE [ret     |-> RBool(lpStatus = 0),
              effects |-> <<EvCancelAll>> \o UsbResetEffects(self, usb)
                          \o <<EvSleep(PrintSettleMs),
                               EvSubmit(self.name, zpl, lpStatus)>>]

\* print that cancels the jobs before it checks the queue name
PrintCall_CancelsEarly(self, zpl, lpinfo, usb, lpStatus) ==
    LET stdout == SystemCommand(lpinfo).stdout
    IN  IF stdout = None THEN [ret |-> Raised("TypeError"), effects |-> <<>>]
        ELSE IF ~Contains(stdout, self.serial_number)
        THEN [ret |-> RBool(FALSE), effects |-> <<>>]
        ELSE IF ~Truthy(self.name)
        THEN [ret |-> RBool(FALSE), effects |-> <<EvCancelAll>>]
        ELSE [ret     |-> RBool(TRUE),
              effects |-> <<EvCancelAll>> \o UsbResetEffects(self, usb)
                          \o <<EvSleep(PrintSettleMs),
                               EvSubmit(self.name, zpl, lpStatus)>>]

PrintCall(self, zpl, lpinfo, usb, lpStatus) ==
    LET stdout == SystemCommand(lpinfo).stdout
    IN  IF stdout = None THEN [ret |-> Raised("TypeError"), effects |-> <<>>]
        ELSE IF ~Contains(stdout, self.serial_number)
        THEN [ret |-> RBool(FALSE), effects |-> <<>>]
        ELSE IF ~Truthy(self.name)
        THEN [ret |-> RBool(FALSE), effects |-> <<>>]
        ELSE [ret     |-> RBool(TRUE),
              effects |-> <<EvCancelAll>> \o UsbResetEffects(self, usb)
                          \o <<EvSleep(PrintSettleMs),
                               EvSubmit(self.name, zpl, lpStatus)>>]

\* test_print returns nothing; an exception of print passes through it
TestPrintCall(self, lpinfo, usb, lpStatus) ==
    LET r == PrintCall(self, TestLabelZpl, lpinfo, usb, lpStatus)
    IN  [ret     |-> IF IsRaised(r.ret) THEN r.ret ELSE RNone,
         effects |-> r.effects]

\* is_connected that answers from what construction found (a resolved queue
\* name) instead of from the listing of this call
IsConnectedCall_Cached(self, lpinfo, usb) ==
    LET stdout == SystemCommand(lpinfo).stdout
    IN  IF stdout = None THEN [ret |-> Raised("TypeError"), effects |-> <<>>]
        ELSE IF Truthy(self.name)
        THEN [ret |-> RBool(TRUE), effects |-> UsbResetEffects(self, usb)]
        ELSE [ret |-> RBool(FALSE), effects |-> <<>>]

IsConnectedCall(self, lpinfo, usb) ==
    LET stdout == SystemCommand(lpinfo).stdout
    IN  IF stdout = None THEN [ret |-> Raised("TypeError"), effects |-> <<>>]
        ELSE IF Contains(stdout, self.serial_number)
        THEN [ret |-> RBool(TRUE), effects |-> UsbResetEffects(self, usb)]
        ELSE [ret |-> RBool(FALSE), effects |-> <<>>]


(***************************************************************************)
(* The environment store (zebra/environment.py): two role keys, each       *)
(* unset (None) or holding serial-VID-PID.                                 *)
(***************************************************************************)
RoleKeys == {"MFG_PRINTER", "MFG_PRINTER_XXL"}

\* Environment.ENV_VARIABLES.get(key, [])
EnvGet(env, key) == IF env[key] = None THEN <<>> ELSE env[key]

\* Environment.set_variable(key, value)
EnvSetVariable(env, key, value) == [env EXCEPT ![key] = value]

(***************************************************************************)
(* Zebra.connected_printers                                                *)
(*                                                                         *)
(* dumps[f] is the run of "udevadm info -a /dev/usb/<f>".                  *)
(***************************************************************************)
Absent == <<"absent">>

\* re.search("product.*ZTC", x)
ProductZTC(x) ==
    \E i \in 1..Len(x) :
        MatchAt(x, ProductKey, i) /\ Find(x, ZTCKey, i + Len(ProductKey)) # 0

RECURSIVE FilterLines(_, _)
FilterLines(lines, marker) ==
    IF lines = <<>> THEN <<>>
    ELSE (IF Contains(Head(lines), marker) THEN <<Head(lines)>> ELSE <<>>)
         \o FilterLines(Tail(lines), marker)

RECURSIVE ProductLines(_)
ProductLines(lines) ==
    IF lines = <<>> THEN <<>>
    ELSE (IF ProductZTC(Head(lines)) THEN <<Head(lines)>> ELSE <<>>)
         \o ProductLines(Tail(lines))

\* the inner loop over /dev/usb for one serial number: the record of the
\* printer after it, or the exception raised in it
RECURSIVE ProbeEntries(_, _, _, _)
ProbeEntries(rec, entries, dumps, env) ==
    IF entries = <<>> THEN rec
    ELSE
      LET f      == Head(entries)
          stdout == SystemCommand(dumps[f]).stdout
          names  == ProductLines(Split(stdout, NL, -1))
          role   == IF Contains(EnvGet(env, "MFG_PRINTER"), rec.sn)
                    THEN <<"MFG_PRINTER">>
                    ELSE IF Contains(EnvGet(env, "MFG_PRINTER_XXL"), rec.sn)
                    THEN <<"MFG_PRINTER_XXL">>
                    ELSE None
      IN  IF ~StartsWith(f, LpPrefix)
          THEN ProbeEntries(rec, Tail(entries), dumps, env)
          ELSE IF stdout = None THEN Raised("TypeError")
          ELSE IF ~Contains(stdout, rec.sn)
          THEN ProbeEntries(rec, Tail(entries), dumps, env)
          ELSE IF names = <<>> THEN Raised("IndexError")
          ELSE ProbeEntries(
                 [rec EXCEPT !.lp = LpPath(f),
                             !.name = RSplitLast(names[1], <<"=">>),
                             !.installed = role],
                 Tail(entries), dumps, env)

RECURSIVE ConnectedLoop(_, _, _, _, _)
ConnectedLoop(connected, out, dir, dumps, env) ==
    IF out = <<>> THEN [dict |-> connected]
    ELSE
      LET dev    == Head(out)
          sn     == RSplitLast(dev, <<"=">>)
          tokens == SplitWS(dev)
          fresh  == [uri |-> tokens[Len(tokens)], lp |-> <<>>, name |-> <<>>,
                     sn |-> sn, installed |-> Absent]
          rec    == ProbeEntries(fresh, dir.entries, dumps, env)
      IN  IF ~Contains(dev, ZebraMarker)
          THEN ConnectedLoop(connected, Tail(out), dir, dumps, env)
          ELSE IF ~dir.exists THEN Raised("FileNotFoundError")
          ELSE IF IsRaised(rec) THEN rec
          ELSE ConnectedLoop(DictSet(connected, sn, rec), Tail(out),
                             dir, dumps, env)

ConnectedPrintersCall(lpinfo, dir, dumps, env) ==
    LET stdout == SystemCommand(lpinfo).stdout
    IN  IF stdout = None THEN Raised("AttributeError")
        ELSE ConnectedLoop(EmptyDict, Split(Strip(stdout), NL, -1),
                           dir, dumps, env)

(***************************************************************************)
(* Zebra.install_printer                                                   *)
(***************************************************************************)
Lower(a) == IF a = "R" THEN "r" ELSE IF a = "S" THEN "s" ELSE a

\* a prompt that takes the first answer whatever it is: anything but [S]
\* counts as regular
PromptLoop_AcceptsAny(answers) ==
    [effects |-> <<EvPrompt(Head(answers))>>,
     is_supplementary |-> Lower(Head(answers)) = "s"]

\* the while True loop: the prompts shown, and whether [S] was entered
RECURSIVE PromptLoop(_)
PromptLoop(answers) ==
    IF Lower(Head(answers)) = "r"
    THEN [effects |-> <<EvPrompt(Head(answers))>>, is_supplementary |-> FALSE]
    ELSE IF Lower(Head(answers)) = "s"
    THEN [effects |-> <<EvPrompt(Head(answers))>>, is_supplementary |-> TRUE]
    ELSE LET rest == PromptLoop(Tail(answers))
         IN  [rest EXCEPT !.effects = <<EvPrompt(Head(answers))>> \o @]

\* model = uri.split("usb://", maxsplit=1)[-1].split("?", maxsplit=1)[0]
\* model = model.replace("%20", "-").replace("/", "-")
InstallModel_LastSegment(uri) ==
    LET parts == Split(uri, UsbScheme, 1)
        path  == Split(parts[Len(parts)], <<"?">>, 1)[1]
    IN  Replace(RSplitLast(path, <<"/">>), Pct20, <<"-">>)

InstallModel(uri) ==
    LET parts == Split(uri, UsbScheme, 1)
        path  == Split(parts[Len(parts)], <<"?">>, 1)[1]
    IN  Replace(Replace(path, Pct20, <<"-">>), <<"/">>, <<"-">>)

\* the line lpstat -v prints for a queue registered by lpadmin -p name -v uri
LpstatLine(name, uri) == DeviceFor \o name \o <<":", " ">> \o uri

\* the rule written to /etc/udev/rules.d/99-zebra.rules
UdevRule(vid) == RulePrefix \o vid \o RuleSuffix

\* the outcome of a run in which nothing outside the process was changed
InstallAbort(ret, queues0, env0, rules0) ==
    [ret |-> ret, effects |-> <<>>,
     queues |-> queues0, envStore |-> env0, rulesFile |-> rules0]

\* install_printer from the point where exactly one Zebra line was found
InstallOne(line, in, queues0, env0, rules0) ==
    LET bySerial      == Split(line, SerialKey, -1)
        byScheme      == Split(line, UsbScheme, 1)
        serial_number == bySerial[2]
        uri           == UsbScheme \o byScheme[2]
        model         == InstallModel(uri)
        listed        == SystemCommand(
                            IF in.lpstatRuns THEN Ran(0, Text(queues0))
                            ELSE NotRun).stdout
        register      == ~Contains(listed, serial_number)
        qname         == model \o <<"-">> \o serial_number
        queues1       == IF register /\ in.lpadminOk
                         THEN Append(queues0, LpstatLine(qname, uri))
                         ELSE queues0
        eff1          == IF register
                         THEN <<EvLpadmin(qname, uri), EvRestartCups,
                                EvSleep(CupsSettleMs)>>
                         ELSE <<>>
        vidpid        == Split(Strip(in.lsusb), <<":">>, -1)
        vid           == vidpid[1]
        pid           == vidpid[2]
        eff2          == eff1 \o <<EvLsusb>>
        rules1        == IF rules0 = None THEN UdevRule(vid) ELSE rules0
        eff3          == eff2 \o (IF rules0 = None
                                  THEN <<EvWriteRules(UdevRule(vid)),
                                         EvReloadUdev>>
                                  ELSE <<>>)
        asked         == PromptLoop(in.answers)
        printer_key   == IF asked.is_supplementary
                         THEN "MFG_PRINTER_XXL" ELSE "MFG_PRINTER"
        value         == Join(<<serial_number, vid, pid>>, <<"-">>)
        env1          == EnvSetVariable(env0, printer_key, value)
        eff4          == eff3 \o asked.effects
                         \o <<EvEnvSet(printer_key, value)>>
        zebra         == ZebraInit(serial_number, vid, pid, None,
                                   Ran(0, Text(queues1)), in.dir, in.probe)
        printed       == TestPrintCall(zebra, in.lpinfo, in.usb, in.lpStatus)
        out(ret, eff, q, e, r) ==
            [ret |-> ret, effects |-> eff,
             queues |-> q, envStore |-> e, rulesFile |-> r]
    IN  IF Len(bySerial) < 2 \/ Len(byScheme) < 2
        THEN InstallAbort(Raised("IndexError"), queues0, env0, rules0)
        ELSE IF serial_number = <<>>
        THEN InstallAbort(RBool(FALSE), queues0, env0, rules0)
        ELSE IF listed = None
        THEN InstallAbort(Raised("TypeError"), queues0, env0, rules0)
        ELSE IF Len(vidpid) # 2
        THEN out(Raised("ValueError"), eff2, queues1, env0, rules0)
        ELSE IF IsRaised(zebra)
        THEN out(zebra, eff4, queues1, env1, rules1)
        ELSE IF IsRaised(printed.ret)
        THEN out(printed.ret, eff4 \o printed.effects, queues1, env1, rules1)
        ELSE out(RBool(TRUE), eff4 \o printed.effects, queues1, env1, rules1)

\* install_printer that goes on with the first Zebra line when there are more
InstallPrinterCall_TakesFirst(in, queues0, env0, rules0) ==
    LET stdout         == SystemCommand(in.lpinfo).stdout
        printers_found == FilterNonEmpty(Split(stdout, NL, -1))
        zebra_printers == FilterLines(printers_found, ZebraMarker)
    IN  IF stdout = None
        THEN InstallAbort(Raised("AttributeError"), queues0, env0, rules0)
        ELSE IF Len(zebra_printers) = 0
        THEN InstallAbort(RBool(FALSE), queues0, env0, rules0)
        ELSE InstallOne(zebra_printers[1], in, queues0, env0, rules0)

\* install_printer that registers the queue without looking at lpstat -v
InstallPrinterCall_AlwaysRegisters(in, queues0, env0, rules0) ==
    LET stdout         == SystemCommand(in.lpinfo).stdout
        printers_found == FilterNonEmpty(Split(stdout, NL, -1))
        zebra_printers == FilterLines(printers_found, ZebraMarker)
        r              == InstallOne(zebra_printers[1], in, <<>>, env0, rules0)
    IN  IF stdout = None
        THEN InstallAbort(Raised("AttributeError"), queues0, env0, rules0)
        ELSE IF Len(zebra_printers) = 0
        THEN InstallAbort(RBool(FALSE), queues0, env0, rules0)
        ELSE IF Len(zebra_printers) > 1
        THEN InstallAbort(RBool(FALSE), queues0, env0, rules0)
        ELSE [r EXCEPT !.queues = queues0 \o @]

InstallPrinterCall(in, queues0, env0, rules0) ==
    LET stdout         == SystemCommand(in.lpinfo).stdout
        printers_found == FilterNonEmpty(Split(stdout, NL, -1))
        zebra_printers == FilterLines(printers_found, ZebraMarker)
    IN  IF stdout = None
        THEN InstallAbort(Raised("AttributeError"), queues0, env0, rules0)
        ELSE IF Len(zebra_printers) = 0
        THEN InstallAbort(RBool(FALSE), queues0, env0, rules0)
        ELSE IF Len(zebra_printers) > 1
        THEN InstallAbort(RBool(FALSE), queues0, env0, rules0)
        ELSE InstallOne(zebra_printers[1], in, queues0, env0, rules0)


(***************************************************************************)
(* The inputs of the calls, drawn from bounded sets.                       *)
(***************************************************************************)
MaxDev     == 2     \* entries of /dev/usb
MaxAnswers == 2     \* answers the operator gives to the role prompt
MaxFields  == 4     \* fields of a line of the configuration table

\* the elements of seq whose index is in S, in order
RECURSIVE Pick(_, _, _)
Pick(seq, S, i) ==
    IF i > Len(seq) THEN <<>>
    ELSE (IF i \in S THEN <<seq[i]>> ELSE <<>>) \o Pick(seq, S, i + 1)

DeviceLines == <<LineABC, LineZ2, LineHP>>

\* lpinfo --include-schemes usb -v: not startable, failing without output,
\* or listing any of the three devices
LpinfoRuns ==
    {NotRun, Ran(1, <<>>)}
    \cup {Ran(0, Text(Pick(DeviceLines, S, 1))) : S \in SUBSET (1..3)}

DevNames == {Lp0, Lp1, Hiddev0}

RECURSIVE Arrangements(_)
Arrangements(n) ==
    IF n = 0 THEN {<<>>}
    ELSE Arrangements(n - 1)
         \cup {Append(a, f) :
                 a \in {b \in Arrangements(n - 1) : Len(b) = n - 1},
                 f \in DevNames}

\* /dev/usb: missing, or up to MaxDev distinct entries in any order
Dirs ==
    {NoDir}
    \cup {Dir(a) : a \in {b \in Arrangements(MaxDev) :
                            \A i, j \in 1..Len(b) : b[i] = b[j] => i = j}}

Probes == [DevNames -> {0, 1}]

\* udevadm info -a /dev/usb/<f>, when udevadm runs
UdevDump(f, withProduct) ==
    IF f = Lp0
    THEN Text((IF withProduct THEN <<DumpProductZT410>> ELSE <<>>)
              \o <<DumpSerialABC>>)
    ELSE IF f = Lp1
    THEN Text((IF withProduct THEN <<DumpProductZD>> ELSE <<>>)
              \o <<DumpSerialZ2>>)
    ELSE Text(<<DumpKernelHid>>)

DumpRuns ==
    {[f \in DevNames |-> NotRun]}
    \cup {[f \in DevNames |-> Ran(0, UdevDump(f, w))] : w \in BOOLEAN}

\* the arguments a caller constructs a Zebra with
Identities ==
    {[serial_number |-> SN_ABC123, vid |-> Vid0a5f, pid |-> Pid0120],
     [serial_number |-> SN_ABC123, vid |-> <<>>, pid |-> <<>>],
     [serial_number |-> SN_Z2, vid |-> <<>>, pid |-> <<>>],
     [serial_number |-> <<>>, vid |-> <<>>, pid |-> <<>>]}

\* timeout 1s cat <lp_path>: 124 when the timeout ended it
ReadStatuses == {0, 1, TimeoutStatus}
Field20 ==
    <<"2", "0", ".", "0">>
FieldDarkness ==
    <<"D", "A", "R", "K", "N", "E", "S", "S">>
FieldPrintWidth ==
    <<"P", "R", "I", "N", "T", " ", "W", "I", "D", "T", "H">>
FieldX ==
    <<"X">>

Sep2 == <<" ", " ">>
Sep3 == <<" ", " ", " ">>

Fields == {Field20, FieldDarkness, FieldPrintWidth}

\* n fields with two or three blanks between neighbours
RECURSIVE FieldRows(_)
FieldRows(n) ==
    IF n = 1 THEN Fields
    ELSE {r \o s \o f : r \in FieldRows(n - 1), s \in {Sep2, Sep3}, f \in Fields}

\* the lines of a table: up to MaxFields fields, with or without blanks
\* at the ends
TableLines ==
    {<<>>}
    \cup {lead \o r \o trail :
            lead \in {<<>>, Sep2}, trail \in {<<>>, Sep2},
            r \in UNION {FieldRows(n) : n \in 1..MaxFields}}

\* two-line tables: each line three fields
TablePairs ==
    {a \o NL \o b :
       a \in {x \o Sep2 \o y \o Sep2 \o FieldX : x \in Fields, y \in Fields},
       b \in {x \o Sep2 \o y \o Sep2 \o FieldX : x \in Fields, y \in Fields}}

TableResponses == TableLines \cup TablePairs

\* what a session operation of the main specification reads back
Responses ==
    {<<>>, Text(<<Field20 \o Sep2 \o FieldDarkness \o Sep2 \o FieldX>>)}

ReadRuns(outputs) ==
    {[status |-> st, stdout |-> o] : st \in ReadStatuses, o \in outputs}

Payloads == {HostConfigZpl, "^XA^FDlabel^FS^XZ"}

LpStatuses == {0, 1}

Answers == {"R", "s", "x"}
ValidAnswers == {"R", "s"}

RECURSIVE AnswerSeqs(_)
AnswerSeqs(n) ==
    IF n = 1 THEN {<<a>> : a \in ValidAnswers}
    ELSE AnswerSeqs(n - 1)
         \cup {<<a>> \o rest : a \in Answers \ ValidAnswers,
                               rest \in {r \in AnswerSeqs(n - 1) :
                                           Len(r) = n - 1}}

\* lsusb | grep 'Zebra' | grep -oP '....:....': a token, or nothing
LsusbOutputs == {LsusbToken \o NL, <<>>}

(***************************************************************************)
(* The state machine.  A call is made when the caller is idle; its record  *)
(* stays in call until the caller has taken the result.                    *)
(***************************************************************************)
Idle == [op |-> "idle"]

UnsetEnv == [k \in RoleKeys |-> None]

\* the value of os.environ["MFG_PRINTER"]: the persisted binding
Environ(env) == env["MFG_PRINTER"]

Init ==
    /\ session = NoSession
    /\ queues = <<QueueLineHP, QueueLineABC>>
    /\ envStore \in {UnsetEnv, [UnsetEnv EXCEPT !["MFG_PRINTER"] = EnvValueABC]}
    /\ rulesFile = None
    /\ call = Idle

\* zebra = Zebra(serial_number, vid, pid)
Construct ==
    /\ call = Idle
    /\ session = NoSession
    /\ \E id \in Identities, lpstatRuns \in BOOLEAN,
          dir \in Dirs, probe \in Probes :
         \E z \in {ZebraInit(id.serial_number, id.vid, id.pid,
                              Environ(envStore),
                              IF lpstatRuns THEN Ran(0, Text(queues))
                              ELSE NotRun,
                              dir, probe)} :
             /\ session' = IF IsRaised(z) THEN NoSession ELSE z
             /\ call' = [op |-> "__init__", dir |-> dir, probe |-> probe,
                         lpstatRuns |-> lpstatRuns,
                         ret |-> IF IsRaised(z) THEN z ELSE RNone]
    /\ UNCHANGED <<queues, envStore, rulesFile>>

\* the caller lets go of the object (zebra = None)
Discard ==
    /\ call = Idle
    /\ session # NoSession
    /\ session' = NoSession
    /\ UNCHANGED <<queues, envStore, rulesFile, call>>

\* the caller takes the result of the call
Return ==
    /\ call # Idle
    /\ call' = Idle
    /\ UNCHANGED <<session, queues, envStore, rulesFile>>

Command ==
    /\ call = Idle
    /\ session # NoSession
    /\ \E zpl \in Payloads, read \in ReadRuns(Responses) :
         \E r \in {CommandCall(session, zpl, read)} :
             call' = [op |-> "command", zpl |-> zpl, read |-> read,
                      ret |-> r.ret, effects |-> r.effects]
    /\ UNCHANGED <<session, queues, envStore, rulesFile>>

GetConfigFrom(reads) ==
    /\ call = Idle
    /\ session # NoSession
    /\ \E read \in reads :
         \E r \in {GetConfigCall(session, read)} :
             call' = [op |-> "get_config", read |-> read,
                      response |-> r.response,
                      ret |-> r.ret, effects |-> r.effects]
    /\ UNCHANGED <<session, queues, envStore, rulesFile>>

GetConfig == GetConfigFrom(ReadRuns(Responses))

\* zebra.print(zpl)
PrintOp ==
    /\ call = Idle
    /\ session # NoSession
    /\ \E zpl \in Payloads, lpinfo \in LpinfoRuns,
          usb \in UsbOutcomes, lpStatus \in LpStatuses :
         \E r \in {PrintCall(session, zpl, lpinfo, usb, lpStatus)} :
             call' = [op |-> "print", zpl |-> zpl, lpinfo |-> lpinfo,
                      usb |-> usb, lpStatus |-> lpStatus,
                      ret |-> r.ret, effects |-> r.effects]
    /\ UNCHANGED <<session, queues, envStore, rulesFile>>

TestPrint ==
    /\ call = Idle
    /\ session # NoSession
    /\ \E lpinfo \in LpinfoRuns, usb \in UsbOutcomes, lpStatus \in LpStatuses :
         \E r \in {TestPrintCall(session, lpinfo, usb, lpStatus)} :
             call' = [op |-> "test_print", lpinfo |-> lpinfo,
                      ret |-> r.ret, effects |-> r.effects]
    /\ UNCHANGED <<session, queues, envStore, rulesFile>>

IsConnected ==
    /\ call = Idle
    /\ session # NoSession
    /\ \E lpinfo \in LpinfoRuns, usb \in UsbOutcomes :
         \E r \in {IsConnectedCall(session, lpinfo, usb)} :
             call' = [op |-> "is_connected", lpinfo |-> lpinfo,
                      ret |-> r.ret, effects |-> r.effects]
    /\ UNCHANGED <<session, queues, envStore, rulesFile>>

Next ==
    \/ Construct
    \/ Discard
    \/ Return
    \/ Command
    \/ GetConfig
    \/ PrintOp
    \/ TestPrint
    \/ IsConnected

Spec == Init /\ [][Next]_vars

QueueLineInstalledABC ==
    <<"d", "e", "v", "i", "c", "e", " ", "f", "o", "r", " ", "Z", "e", "b",
      "r", "a", "-", "T", "e", "c", "h", "n", "o", "l", "o", "g", "i", "e",
      "s", "-", "Z", "T", "C", "-", "Z", "T", "4", "1", "0", "-", "A", "B",
      "C", "1", "2", "3", ":", " ", "u", "s", "b", ":", "/", "/", "Z", "e",
      "b", "r", "a", "%", "2", "0", "T", "e", "c", "h", "n", "o", "l", "o",
      "g", "i", "e", "s", "/", "Z", "T", "C", "%", "2", "0", "Z", "T", "4",
      "1", "0", "?", "s", "e", "r", "i", "a", "l", "=", "A", "B", "C", "1",
      "2", "3">>

(***************************************************************************)
(* The runs of the command-line entry points that need no Zebra object:    *)
(* one operation per run, from any state earlier runs may have left.       *)
(***************************************************************************)
InitInstall ==
    /\ session = NoSession
    /\ queues \in {<<>>, <<QueueLineHP>>, <<QueueLineHP, QueueLineABC>>,
                   <<QueueLineInstalledABC>>}
    /\ envStore \in {UnsetEnv,
                     [UnsetEnv EXCEPT !["MFG_PRINTER_XXL"] = EnvValueABC]}
    /\ rulesFile \in {None, UdevRule(Vid0a5f)}
    /\ call = Idle

InstallUsbOutcomes == {"reset", "denied"}

InstallPrinter ==
    /\ call = Idle
    /\ \E lpinfo \in LpinfoRuns, lpstatRuns \in BOOLEAN, lpadminOk \in BOOLEAN,
          lsusb \in LsusbOutputs, answers \in AnswerSeqs(MaxAnswers),
          usb \in InstallUsbOutcomes, lpStatus \in LpStatuses :
         LET in == [lpinfo |-> lpinfo, lpstatRuns |-> lpstatRuns,
                    lpadminOk |-> lpadminOk, lsusb |-> lsusb,
                    answers |-> answers, dir |-> Dir(<<Lp0>>),
                    probe |-> [f \in DevNames |-> 0],
                    usb |-> usb, lpStatus |-> lpStatus]
         IN  \E r \in {InstallPrinterCall(in, queues, envStore, rulesFile)} :
               /\ queues' = r.queues
               /\ envStore' = r.envStore
               /\ rulesFile' = r.rulesFile
               /\ call' = [op |-> "install_printer", in |-> in,
                           before |-> [queues |-> queues,
                                       envStore |-> envStore,
                                       rulesFile |-> rulesFile],
                           ret |-> r.ret, effects |-> r.effects]
    /\ UNCHANGED session

ConnectedPrinters ==
    /\ call = Idle
    /\ \E lpinfo \in LpinfoRuns, dir \in Dirs, dumps \in DumpRuns :
         call' = [op |-> "connected_printers", lpinfo |-> lpinfo,
                  dir |-> dir, dumps |-> dumps,
                  ret |-> ConnectedPrintersCall(lpinfo, dir, dumps, envStore)]
    /\ UNCHANGED <<session, queues, envStore, rulesFile>>

GetPrinterNameOp ==
    /\ call = Idle
    /\ \E serial_number \in {SN_ABC123, SN_Z2}, lpstatRuns \in BOOLEAN :
         LET lpstat == IF lpstatRuns THEN Ran(0, Text(queues)) ELSE NotRun
         IN  call' = [op |-> "get_printer_name",
                      serial_number |-> serial_number, lpstat |-> lpstat,
                      ret |-> GetPrinterName(serial_number, lpstat)]
    /\ UNCHANGED <<session, queues, envStore, rulesFile>>

NextInstall ==
    \/ InstallPrinter
    \/ ConnectedPrinters
    \/ GetPrinterNameOp

SpecInstall == InitInstall /\ [][NextInstall]_vars


(***************************************************************************)
(* get_config on an enumerated printer that answers with a table.          *)
(***************************************************************************)
ResolvedSession ==
    [serial_number |-> SN_ABC123, name |-> None,
     vid |-> <<>>, pid |-> <<>>, lp_path |-> LpPath(Lp0)]

InitConfig ==
    /\ session = ResolvedSession
    /\ queues = <<>>
    /\ envStore = UnsetEnv
    /\ rulesFile = None
    /\ call = Idle

GetConfigTable ==
    GetConfigFrom({[status |-> TimeoutStatus, stdout |-> o] :
                     o \in TableResponses})

NextConfig ==
    \/ GetConfigTable
    \/ Return

SpecConfig == InitConfig /\ [][NextConfig]_vars


(***************************************************************************)
(* Properties.                                                             *)
(***************************************************************************)
Range(seq) == {seq[i] : i \in 1..Len(seq)}

\* the Zebra-marked lines of a listing
ZebraLines(stdout) == FilterLines(FilterNonEmpty(Split(stdout, NL, -1)), ZebraMarker)

InstallUnchanged ==
    /\ queues = call.before.queues
    /\ envStore = call.before.envStore
    /\ rulesFile = call.before.rulesFile

\* C1: an install_printer run whose device listing holds no Zebra-marked line,
\* or more than one, returns False and does nothing outside the process: no
\* lpadmin, no spooler restart, no rule file, no environment write, no print.
C1_InstallAbortsWithoutEffects ==
    (/\ call.op = "install_printer"
     /\ call.in.lpinfo.ran
     /\ Len(ZebraLines(call.in.lpinfo.stdout)) # 1)
    => /\ call.ret = RBool(FALSE)
       /\ call.effects = <<>>
       /\ InstallUnchanged

C1_Witness ==
    /\ call.op = "install_printer"
    /\ call.in.lpinfo.ran
    /\ Len(ZebraLines(call.in.lpinfo.stdout)) = 2
    /\ call.before.queues = <<>>
    /\ call.ret = RBool(FALSE)

\* the install_printer runs of the scenario of C2: the one device listed is
\* usb://Zebra%20Technologies/ZTC%20ZT410?serial=ABC123, lpstat runs and
\* shows no queue for ABC123
C2_Scenario ==
    /\ call.op = "install_printer"
    /\ call.in.lpinfo = Ran(0, Text(<<LineABC>>))
    /\ call.in.lpstatRuns
    /\ \A i \in 1..Len(call.before.queues) :
         ~Contains(call.before.queues[i], SN_ABC123)

\* C2 as stated: in that scenario the queue registered is named
\* ZTC-ZT410-ABC123.
C2_Original ==
    C2_Scenario => EvLpadmin(NameClaimedABC, UriABC) \in Range(call.effects)

\* C2 as amended: in that scenario the first thing the run does is register
\* a queue named Zebra-Technologies-ZTC-ZT410-ABC123 (the whole URI path with
\* %20 and / turned into hyphens, then - and the serial) with that URI, and
\* no other queue is registered; when lpadmin succeeds lpstat shows it.
C2_QueueNamedAfterWholePath ==
    C2_Scenario
    => /\ call.effects # <<>>
       /\ call.effects[1] = EvLpadmin(NameFromUriABC, UriABC)
       /\ \A i \in 2..Len(call.effects) : call.effects[i].ev # "lpadmin"
       /\ call.in.lpadminOk
            => queues = Append(call.before.queues, QueueLineInstalledABC)

C2_Witness ==
    /\ C2_Scenario
    /\ call.in.lpadminOk
    /\ call.ret = RBool(TRUE)
    /\ QueueLineInstalledABC \in Range(queues)

\* the blanks at the left end of a field
RECURSIVE DropBlanks(_)
DropBlanks(s) == IF s # <<>> /\ Head(s) = " " THEN DropBlanks(Tail(s)) ELSE s

RECURSIVE DropBlanksOfAll(_)
DropBlanksOfAll(xs) ==
    IF xs = <<>> THEN <<>>
    ELSE <<DropBlanks(Head(xs))>> \o DropBlanksOfAll(Tail(xs))

\* the fields of a line that runs of two or more blanks separate
RunFields(line) == FilterNonEmpty(DropBlanksOfAll(Split(line, Sep2, -1)))

\* the non-empty pieces of a line between two-blank separators
PieceFields(line) == FilterNonEmpty(Split(line, Sep2, -1))

\* data is the table that the lines give when a line with fields f gives the
\* entry label(f) -> value(f) if has(f), and later lines overwrite earlier ones
TableIs(data, lines, F(_), has(_), label(_), value(_)) ==
    /\ DOMAIN data = {label(F(lines[i])) : i \in {k \in 1..Len(lines) : has(F(lines[k]))}}
    /\ \A i \in 1..Len(lines) :
         (/\ has(F(lines[i]))
          /\ \A j \in (i + 1)..Len(lines) :
               has(F(lines[j])) => label(F(lines[j])) # label(F(lines[i])))
         => data[label(F(lines[i]))] = value(F(lines[i]))

GotTable == call.op = "get_config" /\ call.response.status = TimeoutStatus

C4_NoneUnlessTimeoutStatus ==
    call.op = "get_config"
    => /\ call.response.status # TimeoutStatus => call.ret = RNone
       /\ call.response.status = TimeoutStatus => DOMAIN call.ret = {"dict"}

C4_Witness ==
    /\ call.op = "get_config"
    /\ call.response.status = 0
    /\ call.response.stdout # <<>>
    /\ call.ret = RNone

Unreachable(z) == z # NoSession /\ ~Truthy(z.lp_path)
Resolved(z) == z # NoSession /\ Truthy(z.lp_path)

FailFast == [status |-> FailStatus, stdout |-> None]

\* C5: on a session without a device path every command and get_config call
\* gives the not-enumerated result and touches no device node, and no step
\* gives the session a device path.
C5_UnreachableIsTerminal ==
    [][Unreachable(session)
       => /\ session' = NoSession \/ Unreachable(session')
          /\ call'.op = "command"
               => call'.ret = FailFast /\ call'.effects = <<>>
          /\ call'.op = "get_config"
               => call'.response = FailFast /\ call'.effects = <<>>]_vars

C5_Witness ==
    /\ Unreachable(session)
    /\ call.op = "command"
    /\ call.read.status = TimeoutStatus
    /\ call.ret = FailFast
    /\ call.effects = <<>>

\* C6: on a session with a device path every command call (get_config's
\* included) does four things to that one node, in this order: write ^XA^XZ,
\* wait, write the payload, read; and returns what the read gave.
C6_CommandOrder ==
    (Resolved(session) /\ call.op \in {"command", "get_config"})
    => LET zpl == IF call.op = "command" THEN call.zpl ELSE HostConfigZpl
           got == IF call.op = "command" THEN call.ret ELSE call.response
           e   == call.effects
       IN  /\ Len(e) = 4
           /\ e[1] = EvWrite(session.lp_path, ResetSequence)
           /\ e[2] = EvSleep(SettleMs)
           /\ e[3] = EvWrite(session.lp_path, zpl)
           /\ e[4] = EvRead(session.lp_path)
           /\ got = [status |-> call.read.status, stdout |-> call.read.stdout]

C6_Witness ==
    /\ Resolved(session)
    /\ call.op = "command"
    /\ call.zpl # HostConfigZpl
    /\ Len(call.effects) = 4
    /\ call.ret.status = TimeoutStatus

\* C7: a print call that got a device listing without the session's serial,
\* or on a session whose queue name is None or empty, returns False and
\* cancels nothing, resets nothing and submits nothing.
C7_PrintPreconditions ==
    (/\ call.op = "print"
     /\ call.lpinfo.ran
     /\ \/ ~Contains(call.lpinfo.stdout, session.serial_number)
        \/ ~Truthy(session.name))
    => call.ret = RBool(FALSE) /\ call.effects = <<>>

C7_Witness ==
    /\ call.op = "print"
    /\ call.lpinfo.ran
    /\ Contains(call.lpinfo.stdout, session.serial_number)
    /\ ~Truthy(session.name)
    /\ call.ret = RBool(FALSE)

PrintProceeds ==
    /\ call.op = "print"
    /\ call.lpinfo.ran
    /\ Contains(call.lpinfo.stdout, session.serial_number)
    /\ Truthy(session.name)

\* C8: a print call that passes its preconditions cancels all jobs first,
\* then resets the USB device (if and only if vid and pid are known), then
\* submits the payload to the session's queue, and returns True whatever
\* status the submission ended with (lp exiting 0 or not).
C8_PrintOrderAndResult ==
    PrintProceeds
    => LET e == call.effects
           resets == {i \in 1..Len(e) : e[i].ev = "usb reset"}
       IN  /\ call.ret = RBool(TRUE)
           /\ e[1] = EvCancelAll
           /\ e[Len(e)] = EvSubmit(session.name, call.zpl, call.lpStatus)
           /\ \A i \in 2..Len(e) : e[i].ev # "cancel -a -x"
           /\ \A i \in 1..(Len(e) - 1) : e[i].ev # "lp"
           /\ Cardinality(resets)
                = IF Truthy(session.vid) /\ Truthy(session.pid) THEN 1 ELSE 0
           /\ \A i \in resets : 1 < i /\ i < Len(e)

C8_Witness ==
    /\ PrintProceeds
    /\ call.lpStatus = 1
    /\ call.usb = "denied"
    /\ Truthy(session.vid)
    /\ call.ret = RBool(TRUE)
    /\ Len(call.effects) = 4

\* the positions of the lp entries of the directory whose probe exits 0
Matches(dir, probe) ==
    IF dir.exists
    THEN {i \in 1..Len(dir.entries) :
            StartsWith(dir.entries[i], LpPrefix) /\ probe[dir.entries[i]] = 0}
    ELSE {}

Constructed == call.op = "__init__" /\ session # NoSession

C10_NoCrashWithoutCommands ==
    /\ (call.op \in {"connected_printers", "is_connected", "print"}
        /\ (~call.lpinfo.ran \/ call.lpinfo.status # 0))
       => ~IsRaised(call.ret)
    /\ (call.op = "connected_printers" /\ call.lpinfo.ran /\ call.dir.exists
        /\ \E f \in Range(call.dir.entries) : ~call.dumps[f].ran)
       => ~IsRaised(call.ret)
    /\ (call.op = "get_printer_name" /\ ~call.lpstat.ran)
       => ~IsRaised(call.ret)
    /\ (call.op = "install_printer" /\ ~call.in.lpinfo.ran)
       => ~IsRaised(call.ret)


(***************************************************************************)
(* The listing tool of zebra/__main__.py: Zebra.installed_printers.        *)
(***************************************************************************)
QueueLineOffice ==
    <<"d", "e", "v", "i", "c", "e", " ", "f", "o", "r", " ", "o", "f", "f",
      "i", "c", "e", "-", "Z", "e", "b", "r", "a", ":", " ", "u", "s", "b",
      ":", "/", "/", "Z", "e", "b", "r", "a", "/", "Z", "D", "?", "s", "e",
      "r", "i", "a", "l", "=", "Z", "2">>
QueueLineZebraOffice ==
    <<"d", "e", "v", "i", "c", "e", " ", "f", "o", "r", " ", "Z", "e", "b",
      "r", "a", "-", "o", "f", "f", "i", "c", "e", ":", " ", "u", "s", "b",
      ":", "/", "/", "Z", "e", "b", "r", "a", "/", "Z", "D", "?", "s", "e",
      "r", "i", "a", "l", "=", "Z", "2">>
QueueLineFront ==
    <<"d", "e", "v", "i", "c", "e", " ", "f", "o", "r", " ", "f", "r", "o",
      "n", "t", ":", " ", "u", "s", "b", ":", "/", "/", "Z", "e", "b", "r",
      "a", "/", "Z", "D", "?", "s", "e", "r", "i", "a", "l", "=", "Z", "2">>
QueueLineNoUri ==
    <<"d", "e", "v", "i", "c", "e", " ", "f", "o", "r", " ", "Z", "T", "C",
      ":", " ", "s", "e", "r", "i", "a", "l", ":", "/", "d", "e", "v", "/",
      "t", "t", "y", "S", "0">>
QueueLineTrailing ==
    <<"d", "e", "v", "i", "c", "e", " ", "f", "o", "r", " ", "Z", "D", ":",
      " ", "u", "s", "b", ":", "/", "/", "Z", "e", "b", "r", "a", "/", "Z",
      "D", "?", "s", "e", "r", "i", "a", "l", "=", "Z", "2", " ", "(", "s",
      "h", "a", "r", "e", "d", ")">>
MarkerZPL ==
    <<"Z", "P", "L">>

MaxQueues == 2      \* lines of the lpstat -v listing

\* s.splitlines(), for text whose only line boundary is "\n"
SplitLines(s) ==
    LET parts == Split(s, NL, -1)
    IN  IF parts[Len(parts)] = <<>> THEN Sub(parts, 1, Len(parts) - 1)
        ELSE parts

\* s.strip(chars): characters of chars removed from both ends
CharStrip(s, chars) ==
    LET keep == {i \in 1..Len(s) : \A k \in 1..Len(chars) : s[i] # chars[k]}
    IN  IF keep = {} THEN <<>> ELSE Sub(s, SetMin(keep), SetMax(keep))

\* re.search(r'usb://[^ ]*', device): the match, or None
UriSearch(device) ==
    LET j      == Find(device, UsbScheme, 1)
        blanks == {k \in j..Len(device) : device[k] = " "}
    IN  IF j = 0 THEN None
        ELSE Sub(device, j, IF blanks = {} THEN Len(device)
                             ELSE SetMin(blanks) - 1)

\* any(i in device for i in ["Zebra", "ZTC", "ZPL"])
HasMarker(device) ==
    \/ Contains(device, ZebraMarker)
    \/ Contains(device, ZTCKey)
    \/ Contains(device, MarkerZPL)

\* the loop over the lines of the listing
RECURSIVE InstalledLoop(_, _)
InstalledLoop(printers, devices) ==
    IF devices = <<>> THEN [dict |-> printers]
    ELSE
      LET device == Head(devices)
          uri    == UriSearch(device)
          name   == CharStrip(Split(device, <<":">>, 1)[1], DeviceFor)
      IN  IF ~HasMarker(device) THEN InstalledLoop(printers, Tail(devices))
          ELSE IF uri = None THEN Raised("TypeError")
          ELSE InstalledLoop(DictSet(printers, name, uri), Tail(devices))

\* installed_printers(); subprocess.run raises when lpstat cannot be started
InstalledPrintersCall(lpstat) ==
    IF ~lpstat.ran THEN Raised("FileNotFoundError")
    ELSE InstalledLoop(EmptyDict, SplitLines(lpstat.stdout))

QueueLines ==
    {QueueLineABC, QueueLineHP, QueueLineInstalledABC, QueueLineOffice,
     QueueLineZebraOffice, QueueLineFront, QueueLineNoUri, QueueLineTrailing}

RECURSIVE Listings(_)
Listings(n) ==
    IF n = 0 THEN {<<>>}
    ELSE Listings(n - 1)
         \cup {Append(l, q) : l \in {m \in Listings(n - 1) : Len(m) = n - 1},
                              q \in QueueLines}

InitListing ==
    /\ session = NoSession
    /\ queues \in Listings(MaxQueues)
    /\ envStore = UnsetEnv
    /\ rulesFile = None
    /\ call = Idle

InstalledPrinters ==
    /\ call = Idle
    /\ \E lpstatRuns \in BOOLEAN :
         LET lpstat == IF lpstatRuns THEN Ran(0, Text(queues)) ELSE NotRun
         IN  call' = [op |-> "installed_printers", lpstat |-> lpstat,
                      ret |-> InstalledPrintersCall(lpstat)]
    /\ UNCHANGED <<session, queues, envStore, rulesFile>>

NextListing ==
    \/ InstalledPrinters

SpecListing == InitListing /\ [][NextListing]_vars

\* the listing lines the claim C11 speaks of
WellFormed(line) == HasMarker(line) /\ Contains(line, UsbScheme)

\* s without the prefix "device for "
PrefixRemoved(s) ==
    IF StartsWith(s, DeviceFor) THEN Sub(s, Len(DeviceFor) + 1, Len(s)) ELSE s

\* the queue name of a listing line: what precedes the first colon, without
\* the prefix
QueueNameOf(line) == PrefixRemoved(Split(line, <<":">>, 1)[1])

\* C11: for every line of the listing with a marker and a USB URI,
\* installed_printers records, under the queue name with only the prefix
\* "device for " removed, the text from usb:// up to the next blank (the
\* last such line of a name is the one recorded).
C11_NameIsPrefixRemoved ==
    (/\ call.op = "installed_printers"
     /\ call.lpstat.ran
     /\ \A i \in 1..Len(queues) : HasMarker(queues[i]) => WellFormed(queues[i]))
    => \A i \in {k \in 1..Len(queues) : WellFormed(queues[k])} :
         /\ QueueNameOf(queues[i]) \in DOMAIN call.ret.dict
         /\ (\A j \in (i + 1)..Len(queues) :
               WellFormed(queues[j]) => QueueNameOf(queues[j]) # QueueNameOf(queues[i]))
            => call.ret.dict[QueueNameOf(queues[i])] = UriSearch(queues[i])


(***************************************************************************)
(* Zebra.choose_printer                                                    *)
(***************************************************************************)
Options == {"1", "2"}
Choices == {"1", "2", "3"}

\* Prompt.choose: asks until the input is one of the options
RECURSIVE ChooseLoop(_)
ChooseLoop(answers) ==
    IF Head(answers) \in Options
    THEN [effects |-> <<EvPrompt(Head(answers))>>, user_choice |-> Head(answers)]
    ELSE LET rest == ChooseLoop(Tail(answers))
         IN  [rest EXCEPT !.effects = <<EvPrompt(Head(answers))>> \o @]

\* int(user_choice)
ChoiceIndex(user_choice) == IF user_choice = "1" THEN 1 ELSE 2

\* list(connected_printers.keys()): the serial numbers of the Zebra lines of
\* the listing in the order they were first inserted
RECURSIVE KeyOrder(_, _)
KeyOrder(out, keys) ==
    IF out = <<>> THEN keys
    ELSE LET sn == RSplitLast(Head(out), <<"=">>)
         IN  KeyOrder(Tail(out),
                      IF Contains(Head(out), ZebraMarker)
                         /\ \A i \in 1..Len(keys) : keys[i] # sn
                      THEN Append(keys, sn) ELSE keys)

\* choose_printer(): in.lpinfo, in.dir, in.dumps are what connected_printers
\* sees, in.answers what the operator types, in.lpstat, in.probe what the
\* constructor sees
ChoosePrinterCall(in, env) ==
    LET connected_printers == ConnectedPrintersCall(in.lpinfo, in.dir,
                                                    in.dumps, env)
        keys   == KeyOrder(Split(Strip(in.lpinfo.stdout), NL, -1), <<>>)
        asked  == ChooseLoop(in.answers)
        index  == ChoiceIndex(asked.user_choice)
        zebra  == ZebraInit(keys[index], <<>>, <<>>, Environ(env),
                            in.lpstat, in.dir, in.probe)
        out(ret, eff) ==
            [ret |-> ret, effects |-> eff, connected |-> connected_printers]
    IN  IF IsRaised(connected_printers) THEN out(connected_printers, <<>>)
        ELSE IF DOMAIN connected_printers.dict = {} THEN out(RNone, <<>>)
        ELSE IF Len(keys) = 1 THEN out(Raised("TypeError"), <<>>)
        ELSE IF index > Len(keys)
        THEN out(Raised("IndexError"), asked.effects)
        ELSE out(zebra, asked.effects)

RECURSIVE ChoiceSeqs(_)
ChoiceSeqs(n) ==
    IF n = 1 THEN {<<a>> : a \in Options}
    ELSE ChoiceSeqs(n - 1)
         \cup {<<a>> \o rest : a \in Choices \ Options,
                               rest \in {r \in ChoiceSeqs(n - 1) :
                                           Len(r) = n - 1}}

InitChoose ==
    /\ session = NoSession
    /\ queues \in {<<>>, <<QueueLineHP, QueueLineABC>>}
    /\ envStore \in {UnsetEnv, [UnsetEnv EXCEPT !["MFG_PRINTER"] = EnvValueABC]}
    /\ rulesFile = None
    /\ call = Idle

\* zebra = Zebra.choose_printer(); connectedAtCheck tells whether the chosen
\* printer is still plugged in when choose_printer reaches its check
ChoosePrinter ==
    /\ call = Idle
    /\ session = NoSession
    /\ \E lpinfo \in LpinfoRuns, dir \in Dirs, dumps \in DumpRuns,
          answers \in ChoiceSeqs(MaxAnswers), lpstatRuns \in BOOLEAN,
          connectedAtCheck \in BOOLEAN :
         LET in == [lpinfo |-> lpinfo, dir |-> dir, dumps |-> dumps,
                    answers |-> answers,
                    lpstat |-> IF lpstatRuns THEN Ran(0, Text(queues))
                               ELSE NotRun,
                    probe |-> [f \in DevNames |-> 0]]
         IN  \E r \in {ChoosePrinterCall(in, envStore)} :
               /\ session' = IF IsRaised(r.ret) \/ r.ret = RNone
                             THEN NoSession ELSE r.ret
               /\ call' = [op |-> "choose_printer", in |-> in,
                           connectedAtCheck |-> connectedAtCheck,
                           connected |-> r.connected,
                           ret |-> r.ret, effects |-> r.effects]
    /\ UNCHANGED <<queues, envStore, rulesFile>>

NextChoose ==
    \/ ChoosePrinter
    \/ Discard
    \/ Return

SpecChoose == InitChoose /\ [][NextChoose]_vars

\* C12: choose_printer returns None when nothing is connected; with exactly
\* one printer connected it returns a session for that printer's serial and
\* prompts nobody; and it returns None whenever the printer chosen is not
\* connected when the connectivity check is made.
C12_ChoosePrinter ==
    (/\ call.op = "choose_printer"
     /\ ~IsRaised(call.connected))
    => LET sns == DOMAIN call.connected.dict
       IN  /\ sns = {} => call.ret = RNone
           /\ Cardinality(sns) = 1
                => /\ ~IsRaised(call.ret)
                   /\ call.ret # RNone
                   /\ call.ret.serial_number \in sns
                   /\ call.effects = <<>>
           /\ (sns # {} /\ ~call.connectedAtCheck) => call.ret = RNone


\* an install_printer run with exactly one candidate that obtained the
\* installed-queue listing
OneCandidate ==
    /\ call.op = "install_printer"
    /\ call.in.lpinfo.ran
    /\ Len(ZebraLines(call.in.lpinfo.stdout)) = 1
    /\ call.in.lpstatRuns

\* the candidate's serial number
CandidateSerial == Split(ZebraLines(call.in.lpinfo.stdout)[1], SerialKey, -1)[2]

\* the serial is in the listing lpstat -v gave before the run
AlreadyListed == Contains(Text(call.before.queues), CandidateSerial)

\* the positions of the effects of one kind
EffectsOf(kind) == {i \in 1..Len(call.effects) : call.effects[i].ev = kind}

\* C13: in an install_printer run with exactly one candidate a queue is
\* registered if and only if the candidate's serial is not in the
\* installed-queue listing; a registration is followed by the spooler
\* restart, then the settle wait, then VID/PID discovery; with the serial
\* listed there is no registration and no restart.
C13_RegistrationOrder ==
    OneCandidate
    => /\ EffectsOf("lpadmin") # {} <=> ~AlreadyListed
       /\ ~AlreadyListed
            => /\ Len(call.effects) >= 4
               /\ call.effects[1].ev = "lpadmin"
               /\ call.effects[2] = EvRestartCups
               /\ call.effects[3] = EvSleep(CupsSettleMs)
               /\ call.effects[4] = EvLsusb
               /\ EffectsOf("lpadmin") = {1}
               /\ EffectsOf("systemctl restart cups") = {2}
               /\ EffectsOf("lsusb") = {4}
       /\ AlreadyListed
            => /\ EffectsOf("lpadmin") = {}
               /\ EffectsOf("systemctl restart cups") = {}
               /\ EffectsOf("lsusb") = {1}

C13_Witness ==
    /\ OneCandidate
    /\ ~AlreadyListed
    /\ call.before.queues # <<>>
    /\ call.effects[1].ev = "lpadmin"
    /\ call.effects[4] = EvLsusb
    /\ call.ret = RBool(TRUE)


\* the answer that ended the role prompt
LastAnswer == call.in.answers[Len(call.in.answers)]

\* the role key the answer stands for
AnsweredKey == IF Lower(LastAnswer) = "s" THEN "MFG_PRINTER_XXL" ELSE "MFG_PRINTER"

\* serial-VID-PID of the candidate
BindingValue ==
    CandidateSerial \o <<"-">> \o Vid0a5f \o <<"-">> \o Pid0120

\* C14: a successful install_printer run writes the environment store
\* exactly once: serial-VID-PID under MFG_PRINTER when the operator answered
\* R, under MFG_PRINTER_XXL when they answered S; the other key keeps its
\* value; every prompt precedes the write, only the last of them has a valid
\* answer, and cancel, USB reset and lp of the test print follow the write.
C14_EnvWrittenOnce ==
    (call.op = "install_printer" /\ call.ret = RBool(TRUE))
    => LET writes  == EffectsOf("set_variable")
           prompts == EffectsOf("prompt")
           prints  == EffectsOf("cancel -a -x") \cup EffectsOf("usb reset")
                      \cup EffectsOf("lp")
       IN  /\ Cardinality(writes) = 1
           /\ \A w \in writes :
                /\ call.effects[w] = EvEnvSet(AnsweredKey, BindingValue)
                /\ prompts # {}
                /\ \A p \in prompts :
                     /\ p < w
                     /\ Lower(call.effects[p].answer) \in {"r", "s"}
                          <=> p = SetMax(prompts)
                /\ call.effects[SetMax(prompts)].answer = LastAnswer
                /\ \A q \in prints : w < q
           /\ envStore[AnsweredKey] = BindingValue
           /\ \A k \in RoleKeys \ {AnsweredKey} :
                envStore[k] = call.before.envStore[k]

C14_Witness ==
    /\ call.op = "install_printer"
    /\ call.ret = RBool(TRUE)
    /\ call.in.answers = <<"x", "s">>
    /\ call.before.envStore = UnsetEnv
    /\ envStore["MFG_PRINTER_XXL"] = EnvValueABC
    /\ envStore["MFG_PRINTER"] = None
    /\ EffectsOf("lp") # {}


\* C15: no call changes the serial, VID, PID, device path or queue name a
\* session got at construction (a step leaves the session as it is, or the
\* caller drops the object), and the result of every is_connected call is
\* whether the listing obtained in that call contains the serial.
C15_IdentityFixed ==
    [][/\ session # NoSession => session' = session \/ session' = NoSession
       /\ (call'.op = "is_connected" /\ call'.lpinfo.ran)
            => call'.ret = RBool(Contains(call'.lpinfo.stdout,
                                          session'.serial_number))]_vars

C15_Witness ==
    /\ call.op = "is_connected"
    /\ call.lpinfo.ran
    /\ call.lpinfo.stdout # <<>>
    /\ call.ret = RBool(FALSE)
    /\ Resolved(session)
    /\ Truthy(session.name)
    /\ Truthy(session.vid)


\* C16: every install_printer run that registers a queue returns True and
\* has written a role key of the environment store for the serial.
C16_InstallAtomic ==
    (call.op = "install_printer" /\ EffectsOf("lpadmin") # {})
    => /\ call.ret = RBool(TRUE)
       /\ \E w \in EffectsOf("set_variable") :
            Contains(call.effects[w].value, CandidateSerial)
       /\ \E k \in RoleKeys : Contains(EnvGet(envStore, k), CandidateSerial)

=============================================================================
